---- MODULE Spec2Model ----
(***************************************************************************)
(* The Streamlit tutor demo of src/app.py as a state machine.              *)
(*                                                                         *)
(* Streamlit runs the script (main) once when the page loads and once more *)
(* for every interaction: a change of the selectbox, a submission of the   *)
(* chat input, a press of one of the two buttons.  One run sees the value  *)
(* every widget returns in that run and the session_state dictionary the   *)
(* earlier runs left behind.  One action of the model is one such run,     *)
(* the whole of main from its first line to its last.  A run has one       *)
(* cause, so at most one of the chat input and the two buttons returns a   *)
(* value in it; the text of a panel whose button was not pressed is not    *)
(* read by the code and is recorded as empty.                              *)
(*                                                                         *)
(* A text is a sequence of one-character strings.  A str-or-None widget    *)
(* value is <<>> for None and <<text>> for a text.                         *)
(***************************************************************************)
EXTENDS Integers, Sequences, FiniteSets

\* ------------------------------------------------------------------ bounds
\* Records one session may store, a chat turn (question and answer) counting
\* as one: the program itself has no limit.
MaxRecords == 2
\* datetime.utcnow() returns 0..MaxClock, in whole seconds.
MaxClock == 1

\* ------------------------------------------------------------- input sets
\* Python's str.strip() removes these from both ends.
Whitespace == {" ", "\t", "\n"}

\* Texts typed into the two text areas: empty, whitespace only, two words,
\* and the same two words padded with whitespace on both sides.
Texts ==
    { <<>>, <<" ", "\t">>, <<"a", " ", "b">>, <<" ", "a", " ", "b", "\n">> }

\* Texts the chat input may hand over: empty, whitespace only, and a word
\* with a space after it.
Prompts == { <<>>, <<" ">>, <<"a", " ">> }

\* --------------------------------------------------------------- constants
None == "None"

REFERENCE_MATERIALS == <<"Serway", "Halliday", "Mechanics">>

\* options=[None] + REFERENCE_MATERIALS
Options == {None} \cup {REFERENCE_MATERIALS[i] : i \in 1..Len(REFERENCE_MATERIALS)}

\* "선택된 교재 없음"
NO_REF_SELECTED == "(no textbook selected)"

\* "참고 교재 없음"
NO_REF_MARKER == "(no reference textbook)"

\* The literal pieces of the placeholder answer.
\* "질문 요약: "
ANSWER_HEAD == "Question summary: "
\* "참고한 교재: "
ANSWER_REF == "Textbook consulted: "
\* "→ 실제 모델 연동 시 여기에 근거 기반 답변을 생성하세요."
ANSWER_SUFFIX == "-> generate an evidence-based answer here once a real model is connected."

Keys == {"chat_history", "ideas", "feedback"}

\* ------------------------------------------------------------------- state
VARIABLES
    session_state,     \* st.session_state: a dictionary, here a function on its keys
    selected_ref,      \* what st.selectbox returned in the latest run
    prompt,            \* what st.chat_input returned in the latest run
    idea,              \* the idea text the latest run read, when its button was pressed
    idea_pressed,      \* what st.button("아이디어 제출") returned in the latest run
    feedback_text,     \* the feedback text the latest run read, when its button was pressed
    feedback_pressed,  \* what st.button("의견 보내기") returned in the latest run
    shown_chat,        \* the chat messages the latest run drew, top to bottom
    shown_ideas,       \* the idea lines the latest run drew, top to bottom
    shown_feedback,    \* the feedback lines the latest run drew, top to bottom
    idea_notice,       \* "warning", "success" or "none": the idea panel's notice
    feedback_notice,   \* the same for the feedback panel
    submissions        \* how many non-empty texts the chat input has handed over

vars == <<session_state, selected_ref, prompt, idea, idea_pressed, feedback_text,
          feedback_pressed, shown_chat, shown_ideas, shown_feedback,
          idea_notice, feedback_notice, submissions>>

\* ----------------------------------------------------------------- helpers
\* Python's truth value of a str-or-None: None and "" are false.
Truthy(p) == p # <<>> /\ Len(p[1]) > 0

RECURSIVE lstrip(_)
lstrip(s) ==
    IF s = <<>> THEN s
    ELSE IF Head(s) \in Whitespace THEN lstrip(Tail(s)) ELSE s

RECURSIVE rstrip(_)
rstrip(s) ==
    IF s = <<>> THEN s
    ELSE IF s[Len(s)] \in Whitespace THEN rstrip(SubSeq(s, 1, Len(s) - 1)) ELSE s

\* Only the leading whitespace goes.
strip_left_only(s) == lstrip(s)

\* str.strip()
strip(s) == rstrip(lstrip(s))

\* The list in the order it is stored.
reversed_not(s) == s

\* reversed(list)
reversed(s) == [i \in 1..Len(s) |-> s[Len(s) + 1 - i]]

\* session_state[k] = v
Put(ss, k, v) == [x \in DOMAIN ss \cup {k} |-> IF x = k THEN v ELSE ss[x]]

\* datetime.utcnow().isoformat(timespec="seconds"): the clock cut to whole
\* seconds, written in a fixed-width form that orders as the seconds do.
utcnow_seconds(clock) == clock

\* ------------------------------------------------------------- _init_state
\* The three lists set to empty in every run, without the "not in" tests.
init_state_reset(ss) ==
    Put(Put(Put(ss, "chat_history", <<>>), "ideas", <<>>), "feedback", <<>>)

init_state(ss) ==
    LET s1 == IF "chat_history" \notin DOMAIN ss THEN Put(ss, "chat_history", <<>>) ELSE ss
        s2 == IF "ideas" \notin DOMAIN s1 THEN Put(s1, "ideas", <<>>) ELSE s1
        s3 == IF "feedback" \notin DOMAIN s2 THEN Put(s2, "feedback", <<>>) ELSE s2
    IN  s3

\* ------------------------------------------------------------ _fake_answer
\* The answer names no textbook, whatever is selected.
fake_answer_no_ref(question, ref) ==
    <<ANSWER_HEAD>> \o question \o <<"\n", "\n">>
    \o <<ANSWER_REF, NO_REF_SELECTED, "\n">>
    \o <<ANSWER_SUFFIX>>

fake_answer(question, ref) ==
    LET ref_text == IF ref # None THEN ref ELSE NO_REF_SELECTED
    IN  <<ANSWER_HEAD>> \o question \o <<"\n", "\n">>
        \o <<ANSWER_REF, ref_text, "\n">>
        \o <<ANSWER_SUFFIX>>

\* ------------------------------------------------------------ _render_chat
\* The question is stored and drawn, the answer is not.
render_chat_user_only(ss, ref, p) ==
    IF Truthy(p)
    THEN LET user == [role |-> "user", content |-> p[1]]
             h1 == Append(ss.chat_history, user)
         IN  [ss |-> [ss EXCEPT !.chat_history = h1],
              shown |-> ss.chat_history \o <<user>>]
    ELSE [ss |-> ss, shown |-> ss.chat_history]

\* Returns the session state it leaves and the messages it drew.
render_chat(ss, ref, p) ==
    IF Truthy(p)
    THEN LET user == [role |-> "user", content |-> p[1]]
             h1 == Append(ss.chat_history, user)
             answer == fake_answer(p[1], ref)
             bot == [role |-> "assistant", content |-> answer]
             h2 == Append(h1, bot)
         IN  [ss |-> [ss EXCEPT !.chat_history = h2],
              shown |-> ss.chat_history \o <<user>> \o <<bot>>]
    ELSE [ss |-> ss, shown |-> ss.chat_history]

\* ------------------------------------------------------ _render_idea_panel
IdeaLine(item) == [ts |-> item.ts, text |-> item.text, ref |-> item.ref]

\* The emptiness test without strip().
render_idea_panel_unstripped(ss, ref, text, pressed, clock) ==
    LET ok == pressed /\ text # <<>>
        item == [text |-> strip(text),
                 ref |-> IF ref # None THEN ref ELSE NO_REF_MARKER,
                 ts |-> utcnow_seconds(clock)]
        s1 == IF ok THEN [ss EXCEPT !.ideas = Append(@, item)] ELSE ss
        rev == reversed(s1.ideas)
    IN  [ss |-> s1,
         notice |-> IF ~pressed THEN "none" ELSE IF ok THEN "success" ELSE "warning",
         shown |-> IF s1.ideas # <<>>
                   THEN [i \in 1..Len(rev) |-> IdeaLine(rev[i])]
                   ELSE <<>>]

\* The selection stored as it is, None included.
render_idea_panel_raw_ref(ss, ref, text, pressed, clock) ==
    LET ok == pressed /\ strip(text) # <<>>
        item == [text |-> strip(text), ref |-> ref, ts |-> utcnow_seconds(clock)]
        s1 == IF ok THEN [ss EXCEPT !.ideas = Append(@, item)] ELSE ss
        rev == reversed(s1.ideas)
    IN  [ss |-> s1,
         notice |-> IF ~pressed THEN "none" ELSE IF ok THEN "success" ELSE "warning",
         shown |-> IF s1.ideas # <<>>
                   THEN [i \in 1..Len(rev) |-> IdeaLine(rev[i])]
                   ELSE <<>>]

\* Returns the session state it leaves, its notice and the lines it drew.
render_idea_panel(ss, ref, text, pressed, clock) ==
    LET ok == pressed /\ strip(text) # <<>>
        item == [text |-> strip(text),
                 ref |-> IF ref # None THEN ref ELSE NO_REF_MARKER,
                 ts |-> utcnow_seconds(clock)]
        s1 == IF ok THEN [ss EXCEPT !.ideas = Append(@, item)] ELSE ss
        rev == reversed(s1.ideas)
    IN  [ss |-> s1,
         notice |-> IF ~pressed THEN "none" ELSE IF ok THEN "success" ELSE "warning",
         shown |-> IF s1.ideas # <<>>
                   THEN [i \in 1..Len(rev) |-> IdeaLine(rev[i])]
                   ELSE <<>>]

\* -------------------------------------------------- _render_feedback_panel
FeedbackLine(item) == [ts |-> item.ts, text |-> item.text]

\* The record goes to the ideas list, as in the panel this one was copied from.
render_feedback_panel_to_ideas(ss, text, pressed, clock) ==
    LET ok == pressed /\ strip(text) # <<>>
        item == [text |-> strip(text), ref |-> NO_REF_MARKER, ts |-> utcnow_seconds(clock)]
        s1 == IF ok THEN [ss EXCEPT !.ideas = Append(@, item)] ELSE ss
        rev == reversed(s1.feedback)
    IN  [ss |-> s1,
         notice |-> IF ~pressed THEN "none" ELSE IF ok THEN "success" ELSE "warning",
         shown |-> IF s1.feedback # <<>>
                   THEN [i \in 1..Len(rev) |-> FeedbackLine(rev[i])]
                   ELSE <<>>]

\* Returns the session state it leaves, its notice and the lines it drew.
render_feedback_panel(ss, text, pressed, clock) ==
    LET ok == pressed /\ strip(text) # <<>>
        item == [text |-> strip(text), ts |-> utcnow_seconds(clock)]
        s1 == IF ok THEN [ss EXCEPT !.feedback = Append(@, item)] ELSE ss
        rev == reversed(s1.feedback)
    IN  [ss |-> s1,
         notice |-> IF ~pressed THEN "none" ELSE IF ok THEN "success" ELSE "warning",
         shown |-> IF s1.feedback # <<>>
                   THEN [i \in 1..Len(rev) |-> FeedbackLine(rev[i])]
                   ELSE <<>>]

\* -------------------------------------------------------------------- main
\* One run of the script with the values its widgets return and the reading
\* datetime.utcnow() gives when the run calls it: the wall clock, which moves
\* forward as time passes and to any other reading when the system time is set.
main(ref, p, idea_in, idea_btn, fb_in, fb_btn, now) ==
    LET s0 == init_state(session_state)
        c == render_chat(s0, ref, p)
        i == render_idea_panel(c.ss, ref, idea_in, idea_btn, now)
        f == render_feedback_panel(i.ss, fb_in, fb_btn, now)
    IN  /\ session_state' = f.ss
        /\ selected_ref' = ref
        /\ prompt' = p
        /\ idea' = idea_in
        /\ idea_pressed' = idea_btn
        /\ feedback_text' = fb_in
        /\ feedback_pressed' = fb_btn
        /\ shown_chat' = c.shown
        /\ shown_ideas' = i.shown
        /\ shown_feedback' = f.shown
        /\ idea_notice' = i.notice
        /\ feedback_notice' = f.notice
        /\ submissions' = IF p # <<>> /\ Len(p[1]) > 0 THEN submissions + 1 ELSE submissions

\* The script has run at least once in this session.
Loaded == DOMAIN session_state = Keys

\* The records stored so far, a chat turn counting as one.
Stored ==
    IF Loaded
    THEN submissions + Len(session_state.ideas) + Len(session_state.feedback)
    ELSE 0

\* ----------------------------------------------------------------- actions
Init ==
    /\ session_state = [k \in {} |-> <<>>]
    /\ selected_ref = None
    /\ prompt = <<>>
    /\ idea = <<>>
    /\ idea_pressed = FALSE
    /\ feedback_text = <<>>
    /\ feedback_pressed = FALSE
    /\ shown_chat = <<>>
    /\ shown_ideas = <<>>
    /\ shown_feedback = <<>>
    /\ idea_notice = "none"
    /\ feedback_notice = "none"
    /\ submissions = 0

\* The page loads, or is run again with the selectbox as it was.
PageLoad ==
    \E r \in {selected_ref} :
        main(r, <<>>, <<>>, FALSE, <<>>, FALSE, 0)

\* The user picks another entry of the selectbox.
SelectRef ==
    /\ Loaded
    /\ \E r \in Options \ {selected_ref} :
          main(r, <<>>, <<>>, FALSE, <<>>, FALSE, 0)

\* The chat input hands over a text.
ChatSubmit ==
    /\ Loaded
    /\ Stored < MaxRecords
    /\ \E t \in Prompts :
          main(selected_ref, <<t>>, <<>>, FALSE, <<>>, FALSE, 0)

\* The idea button is pressed with some text in the idea text area.
IdeaSubmit ==
    /\ Loaded
    /\ Stored < MaxRecords
    /\ \E t \in Texts, clock \in 0..MaxClock :
          main(selected_ref, <<>>, t, TRUE, <<>>, FALSE, clock)

\* The feedback button is pressed with some text in the feedback text area.
FeedbackSubmit ==
    /\ Loaded
    /\ Stored < MaxRecords
    /\ \E t \in Texts, clock \in 0..MaxClock :
          main(selected_ref, <<>>, <<>>, FALSE, t, TRUE, clock)

Next ==
    \/ PageLoad
    \/ SelectRef
    \/ ChatSubmit
    \/ IdeaSubmit
    \/ FeedbackSubmit

Spec == Init /\ [][Next]_vars

\* ------------------------------------------------- vocabulary of the claims
\* The list under key k, empty while the key is absent.
SeqOf(ss, k) == IF k \in DOMAIN ss THEN ss[k] ELSE <<>>

Chat == SeqOf(session_state, "chat_history")
Ideas == SeqOf(session_state, "ideas")
Fb == SeqOf(session_state, "feedback")

IsPrefix(s, t) == Len(s) <= Len(t) /\ SubSeq(t, 1, Len(s)) = s

\* Empty or whitespace only.
Blank(t) == \A i \in 1..Len(t) : t[i] \in Whitespace

\* r occurs in t as a run of neighbouring characters.
Contains(t, r) ==
    \E i \in 0..(Len(t) - Len(r)) : SubSeq(t, i + 1, i + Len(r)) = r

\* r is t without its leading and its trailing whitespace.
IsTrimOf(r, t) ==
    /\ r # <<>> => r[1] \notin Whitespace /\ r[Len(r)] \notin Whitespace
    /\ \E i \in 0..Len(t) :
          /\ i + Len(r) <= Len(t)
          /\ SubSeq(t, i + 1, i + Len(r)) = r
          /\ \A x \in 1..i : t[x] \in Whitespace
          /\ \A x \in (i + Len(r) + 1)..Len(t) : t[x] \in Whitespace

\* ------------------------------------------------------------------ claims
\* C1: after N chat submissions (runs in which the chat input hands over a
\* non-empty text) the chat sequence has exactly 2N entries, user at the odd
\* places and assistant at the even ones, so that a user entry is never the
\* last one between two runs.
C1_ChatAlternates ==
    /\ Len(Chat) = 2 * submissions
    /\ \A i \in 1..Len(Chat) :
          Chat[i].role = IF i % 2 = 1 THEN "user" ELSE "assistant"

C1_TwoTurns ==
    /\ submissions = 2
    /\ Len(Chat) = 4
    /\ Chat[3].role = "user"
    /\ Chat[4].role = "assistant"

\* C2: a press of the idea button (of the feedback button) on an empty or
\* whitespace-only text leaves the ideas (the feedback) sequence as it was
\* and takes the warning path.
C2_BlankSubmitWarns ==
    [][ /\ (idea_pressed' /\ Blank(idea'))
            => Ideas' = Ideas /\ idea_notice' = "warning"
        /\ (feedback_pressed' /\ Blank(feedback_text'))
            => Fb' = Fb /\ feedback_notice' = "warning" ]_vars

C2_WhitespaceIdeaRefused ==
    /\ idea_pressed
    /\ idea # <<>>
    /\ Blank(idea)
    /\ idea_notice = "warning"
    /\ Len(Ideas) = 1

\* C3: a press of the idea button on a text that is not blank makes the
\* ideas sequence one longer, and the new last record carries the reference
\* selected in that run, or the "none" marker when none is selected.
C3_IdeaAppended ==
    [][ (idea_pressed' /\ ~Blank(idea'))
          => /\ Len(Ideas') = Len(Ideas) + 1
             /\ IsPrefix(Ideas, Ideas')
             /\ Ideas'[Len(Ideas')].ref =
                   IF selected_ref' = None THEN NO_REF_MARKER ELSE selected_ref' ]_vars

C3_IdeasUnderTwoSelections ==
    /\ idea_pressed
    /\ ~Blank(idea)
    /\ selected_ref = None
    /\ Len(Ideas) = 2
    /\ Ideas[1].ref = "Halliday"
    /\ Ideas[2].ref = NO_REF_MARKER

\* C4: a chat input that is empty or whitespace only leaves the chat
\* sequence as it was.
C4_BlankChatIgnored ==
    [][ (prompt' # <<>> /\ Blank(prompt'[1])) => Chat' = Chat ]_vars

\* C5: a chat submission of a non-empty question q under selection r appends
\* a user entry whose content is q, then an assistant entry whose content
\* holds q and r's name (the "no textbook selected" marker when r is None);
\* and two turns with the same question and the same reference have the
\* same answer.
C5_AnswerStep ==
    (prompt' # <<>> /\ Len(prompt'[1]) > 0)
      => LET q == prompt'[1]
             n == Len(Chat)
             h == Chat'
             r == IF selected_ref' = None THEN NO_REF_SELECTED ELSE selected_ref'
         IN  /\ Len(h) = n + 2
             /\ IsPrefix(Chat, h)
             /\ h[n + 1] = [role |-> "user", content |-> q]
             /\ h[n + 2].role = "assistant"
             /\ Contains(h[n + 2].content, q)
             /\ Contains(h[n + 2].content, <<r>>)

C5_AnswerDetermined ==
    \A i, j \in 1..(Len(Chat) \div 2) :
        ( /\ Chat[2 * i - 1].content = Chat[2 * j - 1].content
          /\ \E r \in (Options \ {None}) \cup {NO_REF_SELECTED} :
                /\ Contains(Chat[2 * i].content, <<r>>)
                /\ Contains(Chat[2 * j].content, <<r>>) )
        => Chat[2 * i].content = Chat[2 * j].content

C5_AnswerEchoes == [][C5_AnswerStep]_vars /\ []C5_AnswerDetermined

C5_AnswersUnderTwoSelections ==
    /\ Len(Chat) = 4
    /\ prompt = << <<"a", " ">> >>
    /\ selected_ref = None
    /\ Contains(Chat[2].content, <<"Halliday">>)
    /\ Contains(Chat[4].content, <<NO_REF_SELECTED>>)
    /\ Contains(Chat[4].content, <<"a", " ">>)

\* C6: every run draws the idea list and the feedback list as the reverse of
\* the stored sequences as they stand at the end of the run: the latest
\* record first, every record once.
C6_ListsShownReversed ==
    /\ Len(shown_ideas) = Len(Ideas)
    /\ \A i \in 1..Len(Ideas) :
          shown_ideas[i] =
              [ts |-> Ideas[Len(Ideas) + 1 - i].ts,
               text |-> Ideas[Len(Ideas) + 1 - i].text,
               ref |-> Ideas[Len(Ideas) + 1 - i].ref]
    /\ Len(shown_feedback) = Len(Fb)
    /\ \A i \in 1..Len(Fb) :
          shown_feedback[i] =
              [ts |-> Fb[Len(Fb) + 1 - i].ts, text |-> Fb[Len(Fb) + 1 - i].text]

C6_TwoIdeasShown ==
    /\ Len(Ideas) = 2
    /\ Ideas[1] # Ideas[2]
    /\ shown_ideas[1].ref = Ideas[2].ref
    /\ idea_pressed

\* C7: in the ideas sequence and in the feedback sequence the timestamps
\* never decrease from one record to the next, whatever the clock does.
C7_TimestampsSorted ==
    /\ \A i, j \in 1..Len(Ideas) : i < j => Ideas[i].ts <= Ideas[j].ts
    /\ \A i, j \in 1..Len(Fb) : i < j => Fb[i].ts <= Fb[j].ts

\* C8: in every run, a run that only calls the initialiser or changes the
\* selection included, each of the three sequences as it was before the run
\* is a prefix of what it is after it, and no key is ever removed.
C8_AppendOnly ==
    [][ /\ DOMAIN session_state \subseteq DOMAIN session_state'
        /\ \A k \in Keys :
              IsPrefix(SeqOf(session_state, k), SeqOf(session_state', k)) ]_vars

C8_KeptThroughReselection ==
    /\ Len(Chat) = 2
    /\ Len(Ideas) = 1
    /\ Ideas[1].ref = "Serway"
    /\ selected_ref = "Halliday"
    /\ prompt = <<>>
    /\ ~idea_pressed
    /\ ~feedback_pressed

\* C9: a press of the feedback button on a text that is not blank appends
\* exactly one record, holding the text without its leading and trailing
\* whitespace and a timestamp; and every record of the feedback and of the
\* ideas sequence has a text that is not empty and neither starts nor ends
\* with whitespace.
C9_FeedbackStep ==
    (feedback_pressed' /\ ~Blank(feedback_text'))
      => /\ Len(Fb') = Len(Fb) + 1
         /\ IsPrefix(Fb, Fb')
         /\ IsTrimOf(Fb'[Len(Fb')].text, feedback_text')
         /\ Fb'[Len(Fb')].ts \in 0..MaxClock
         /\ DOMAIN Fb'[Len(Fb')] = {"text", "ts"}

C9_TextsTrimmed ==
    \A s \in {Ideas, Fb} : \A i \in 1..Len(s) :
        /\ s[i].text # <<>>
        /\ s[i].text[1] \notin Whitespace
        /\ s[i].text[Len(s[i].text)] \notin Whitespace

C9_FeedbackStored == [][C9_FeedbackStep]_vars /\ []C9_TextsTrimmed

C9_PaddedFeedbackStored ==
    /\ feedback_pressed
    /\ feedback_text = <<" ", "a", " ", "b", "\n">>
    /\ feedback_notice = "success"
    /\ Len(Fb) = 1
    /\ Fb[1].text = <<"a", " ", "b">>

\* C10: a chat submission leaves the ideas and the feedback sequence as they
\* were, an idea submission the chat and the feedback sequence, a feedback
\* submission the chat and the ideas sequence, and a change of the
\* selection all three.
C10_OwnSequenceOnly ==
    [][ /\ prompt' # <<>> => Ideas' = Ideas /\ Fb' = Fb
        /\ idea_pressed' => Chat' = Chat /\ Fb' = Fb
        /\ feedback_pressed' => Chat' = Chat /\ Ideas' = Ideas
        /\ selected_ref' # selected_ref
              => Chat' = Chat /\ Ideas' = Ideas /\ Fb' = Fb ]_vars

C10_FeedbackBesideChat ==
    /\ feedback_pressed
    /\ feedback_notice = "success"
    /\ Len(Fb) = 1
    /\ Len(Chat) = 2
    /\ Len(Ideas) = 0

====
